---- MODULE Spec2Model ----
(***************************************************************************)
(* The three single-shot runners of the Loukai Creator                     *)
(*   crepe_runner.py   (pitch),                                            *)
(*   demucs_runner.py  (stems),                                            *)
(*   whisper_runner.py (transcript).                                       *)
(* One behaviour is one invocation of one runner: main() from the first    *)
(* line to process exit.  `log' is everything the process wrote, in order, *)
(* with the file descriptor each write went to.                            *)
(*                                                                         *)
(* Units.  Python floats are modelled by scaled integers:                  *)
(*   confidence        1e-4            (5000 is 0.5)                       *)
(*   frequency         1e-3 Hz         (440000 is 440 Hz)                  *)
(*   midi              1e-4 semitone                                       *)
(*   segment times     1/TicksPerMs ms on input, 1 ms once rounded         *)
(* and round(x, n) is modelled by RoundHalfEven on the exact quotient.     *)
(***************************************************************************)
EXTENDS Integers, Sequences, FiniteSets, TLC

(***************************************************************************)
(* Bounds of the model.                                                    *)
(***************************************************************************)
MaxFrames  == 5   \* raw CREPE frames of the richest input file
MaxSources == 3   \* declared sources of the separation model
MaxTextLen == 7   \* characters of a Whisper segment text
MaxTicks   == 7   \* latest segment time, in ticks
TicksPerMs == 1   \* resolution of segment times: ticks per millisecond

(***************************************************************************)
(* Program constants.                                                      *)
(***************************************************************************)
hop_length_default == 512
downsample_factor  == 4
crepe_rate         == 16000
ConfGate           == 5000      \* the literal 0.5 of lines 113 and 121
model_samplerate   == 44100     \* htdemucs models run at 44.1 kHz
chunk_seconds      == 30
word_probability   == 900       \* the literal 0.9, in 1e-3

None == "<None>"

(***************************************************************************)
(* Small helpers.                                                          *)
(***************************************************************************)
RECURSIVE SumSeq(_)
SumSeq(s) == IF s = <<>> THEN 0 ELSE Head(s) + SumSeq(Tail(s))

\* Python's slice s[::step]: the elements at 0-based indexes 0, step, 2*step...
Stride(s, step) ==
    [j \in 1..((Len(s) + step - 1) \div step) |-> s[(j - 1) * step + 1]]

\* round(num/den) to the nearest integer, an exact tie going to the even one
\* (Python 3 round()); num >= 0, den > 0.
RoundHalfEven(num, den) ==
    LET q == num \div den
        r == num % den
    IN  IF 2 * r < den THEN q
        ELSE IF 2 * r > den THEN q + 1
        ELSE IF q % 2 = 0 THEN q ELSE q + 1

\* round() of a value that floating point computed: off an exact tie the
\* rounding error cannot change the result; on an exact decimal tie the
\* computed double lies on one side or the other, `up' says which.
RoundFloat(num, den, up) ==
    IF 2 * (num % den) = den
    THEN (num \div den) + (IF up THEN 1 ELSE 0)
    ELSE RoundHalfEven(num, den)

\* dict.get(key, default) on a parsed JSON object
Get(d, key, default) == IF key \in DOMAIN d THEN d[key] ELSE default

\* Python truthiness of the values the argument object can hold
Truthy(v) == v \notin {None, ""}

(***************************************************************************)
(* State.                                                                  *)
(***************************************************************************)
VARIABLES
    runner,        \* which script runs: "crepe", "demucs" or "whisper"
    argv,          \* sys.argv: <<script>> or <<script, argument text>>
    torch,         \* what the torch runtime reports about accelerators
    media,         \* the input file and the model zoo, as the libraries see them
    pc,            \* position in main()
    log,           \* every write of the process, in order
    sys_stdout,    \* the stream sys.stdout is bound to: "stdout" or "stderr"
    exit_code,     \* -1 while running, then the exit status
    exc,           \* the exception that ended main(), "none" if none was raised
    device,        \* the local `device'; "none" before it is assigned
    model_loaded,  \* a model has been loaded (or run)
    fs,            \* paths created by this invocation
    crepe,         \* locals of crepe_runner.main
    demucs,        \* locals of demucs_runner.main
    whisper        \* locals of whisper_runner.main

vars == <<runner, argv, torch, media, pc, log, sys_stdout, exit_code, exc, device,
          model_loaded, fs, crepe, demucs, whisper>>

Runners == {"crepe", "demucs", "whisper"}

(***************************************************************************)
(* Output.                                                                 *)
(***************************************************************************)
\* progress(percent, message): one PROGRESS line on stderr
progress(percent) == [fd |-> "stderr", kind |-> "progress", percent |-> percent]

\* print(json.dumps(body)): goes to whatever sys.stdout is bound to
PrintJson(fd, body) == [fd |-> fd, kind |-> "json", body |-> body]

\* any other text on stderr (timing line, verbose lyrics, interpreter traceback)
StderrText(kind) == [fd |-> "stderr", kind |-> kind]

\* main() goes on to the next statement group
Goto(events, next) ==
    /\ log' = log \o events
    /\ pc' = next
    /\ UNCHANGED <<exit_code, exc>>

\* the process ends with the given status, no exception involved:
\* print(...); sys.exit(1), or main() returning
Exit(events, status) ==
    /\ log' = log \o events
    /\ pc' = "exited"
    /\ exit_code' = status
    /\ UNCHANGED exc

\* exception e is raised inside the try block of main():
\* `except Exception as e:' prints {error, traceback} and calls sys.exit(1);
\* fd is what sys.stdout is bound to when the handler runs
Except(events, fd, e) ==
    /\ log' = log \o events
                  \o <<PrintJson(fd, [error |-> e, traceback |-> "format_exc"])>>
    /\ pc' = "exited"
    /\ exit_code' = 1
    /\ exc' = e

\* exception e is raised outside every try block: the interpreter prints
\* the traceback on stderr and exits with status 1
Uncaught(events, e) ==
    /\ log' = log \o events \o <<StderrText("uncaught")>>
    /\ pc' = "exited"
    /\ exit_code' = 1
    /\ exc' = e

\* The exceptions are named after what raised them.  These come out of a
\* library call or the operating system (ImportError, RuntimeError,
\* OSError...); "ZeroDivisionError" and "AttributeError" come out of the
\* runner's own statements.
LibraryErrors ==
    {"import", "sf.read", "resample", "predict", "open", "get_model",
     "convert_audio", "apply_model", "mkdir", "sf.write", "load_model",
     "load_audio", "transcribe"}

(***************************************************************************)
(* The argument.                                                           *)
(***************************************************************************)
\* json.loads(sys.argv[1]) raises JSONDecodeError iff the text is not JSON
JsonInvalid == [wellformed |-> FALSE, type |-> "none", members |-> <<>>]
\* JSON that is not an object (an array, a number, a string, null)
JsonArray   == [wellformed |-> TRUE, type |-> "array", members |-> <<>>]
JsonObject(d) == [wellformed |-> TRUE, type |-> "object", members |-> d]

ArgKeys(r) ==
    CASE r = "crepe"   -> {"input", "output"}
      [] r = "demucs"  -> {"input", "output_dir"}
      [] r = "whisper" -> {"input", "initial_prompt"}

ArgVals(k) ==
    CASE k = "input"          -> {"", "in.wav"}
      [] k = "output"         -> {"pitch.json"}
      [] k = "output_dir"     -> {"out"}
      [] k = "initial_prompt" -> {"song title"}

ArgObjects(r) ==
    UNION { [ks -> UNION {ArgVals(k) : k \in ks}] : ks \in SUBSET ArgKeys(r) }

WellTyped(d) == \A k \in DOMAIN d : d[k] \in ArgVals(k)

Argvs(r) ==
    {<<r>>, <<r, JsonInvalid>>, <<r, JsonArray>>}
    \cup {<<r, JsonObject(d)>> : d \in {o \in ArgObjects(r) : WellTyped(o)}}

\* torch.cuda.is_available(), hasattr(torch.backends, 'mps') and
\* torch.backends.mps.is_available() (which needs the attribute)
Torches == {t \in [cuda : BOOLEAN, has_mps : BOOLEAN, mps : BOOLEAN] :
                t.mps => t.has_mps}

(***************************************************************************)
(* Device selection.                                                       *)
(***************************************************************************)
\* CrepeDetectDevice with the MPS branch of the other two runners
CrepeDetectDeviceWithMps(t) ==
    IF t.cuda THEN "cuda"
    ELSE IF t.has_mps /\ t.mps THEN "mps"
    ELSE "cpu"

\* crepe_runner.py: CUDA, else CPU (never MPS)
CrepeDetectDevice(t) == IF t.cuda THEN "cuda" ELSE "cpu"

\* demucs_runner.py: CUDA, else MPS, else CPU
DemucsDetectDevice(t) ==
    IF t.cuda THEN "cuda"
    ELSE IF t.has_mps /\ t.mps THEN "mps"
    ELSE "cpu"

\* whisper_runner.py: CUDA, else MPS, else CPU
WhisperDetectDevice(t) ==
    IF t.cuda THEN "cuda"
    ELSE IF t.has_mps /\ t.mps THEN "mps"
    ELSE "cpu"

JsonNull == [null |-> TRUE]

(***************************************************************************)
(* crepe_runner.py                                                         *)
(***************************************************************************)
\* What torchcrepe.predict reports for one hop of the input file: a
\* frequency (1e-3 Hz) and a periodicity (1e-4).
FrameVals ==
    { [frequency |-> 440004, confidence |-> 3000],   \* clearly unvoiced
      [frequency |-> 440004, confidence |-> 4996],   \* below the gate, rounds to 0.5
      [frequency |-> 220000, confidence |-> 5000],   \* exactly 0.5
      [frequency |-> 440000, confidence |-> 9000],   \* voiced
      [frequency |-> 0,      confidence |-> 9000] }

FrameSeqs(n) == UNION { [1..k -> FrameVals] : k \in 0..n }

\* input files of the pitch runner: channel count, sample rate, and the
\* frames the detector will find in it (no samples, no frames)
CrepeMedia(frameSeqs) ==
    [channels : {1, 2}, sample_rate : {crepe_rate, 44100}, frames : frameSeqs]

\* 69 + 12 * log2(f / 440), in 1e-4 semitone, for the frequencies of FrameVals
MidiOf(f) ==
    CASE f = 220000 -> 570000
      [] f = 440000 -> 690000
      [] f = 440004 -> 690002

\* ValidFrames without the frequency test
ValidFramesByConfidence(frequency, confidence) ==
    [i \in 1..Len(frequency) |-> confidence[i] > ConfGate]

\* valid_frames = (frequency > 0) & (confidence > 0.5)
ValidFrames(frequency, confidence) ==
    [i \in 1..Len(frequency) |-> frequency[i] > 0 /\ confidence[i] > ConfGate]

CountTrue(mask) == Cardinality({i \in 1..Len(mask) : mask[i]})

\* confidence[valid_frames].mean() if valid_frames.any() else 0, as num/den
MeanWhere(confidence, mask) ==
    IF CountTrue(mask) = 0 THEN [num |-> 0, den |-> 1]
    ELSE [num |-> SumSeq([i \in 1..Len(mask) |->
                             IF mask[i] THEN confidence[i] ELSE 0]),
          den |-> CountTrue(mask)]

\* ConfidenceGate with the comparison reversed
ConfidenceGateReversed(frequency, confidence) ==
    [i \in 1..Len(frequency) |->
        IF confidence[i] > ConfGate THEN 0 ELSE frequency[i]]

\* frequency[confidence < 0.5] = 0
ConfidenceGate(frequency, confidence) ==
    [i \in 1..Len(frequency) |->
        IF confidence[i] < ConfGate THEN 0 ELSE frequency[i]]

\* midi = zeros; midi[frequency > 0] = 69 + 12 * log2(frequency / 440)
ToMidi(frequency) ==
    [i \in 1..Len(frequency) |->
        IF frequency[i] > 0 THEN MidiOf(frequency[i]) ELSE 0]

\* the pitch_data dict of lines 149-157: time in 1e-4 s, frequency in
\* 1e-2 Hz, midi in 1e-2 semitone, confidence in 1e-3
BuildPitchData(c) ==
    LET time_ds       == Stride(c.time, downsample_factor)
        frequency_ds  == Stride(c.frequency, downsample_factor)
        midi_ds       == Stride(c.midi, downsample_factor)
        confidence_ds == Stride(c.confidence, downsample_factor)
    IN  [ time        |-> [j \in 1..Len(time_ds) |->
                             RoundHalfEven(time_ds[j] * 10000, c.sample_rate)],
          frequency   |-> [j \in 1..Len(frequency_ds) |->
                             IF frequency_ds[j] > 0
                             THEN RoundHalfEven(frequency_ds[j], 10) ELSE 0],
          midi        |-> [j \in 1..Len(midi_ds) |->
                             IF midi_ds[j] > 0
                             THEN RoundHalfEven(midi_ds[j], 100) ELSE 0],
          confidence  |-> [j \in 1..Len(confidence_ds) |->
                             RoundHalfEven(confidence_ds[j], 10)],
          sample_rate |-> c.sample_rate,
          hop_length  |-> c.hop_length * downsample_factor,
          model       |-> c.model_capacity ]

CrepeLocals ==
    [ input_path |-> None, output_path |-> None,
      hop_length |-> hop_length_default, model_capacity |-> "tiny",
      channels |-> 0, sample_rate |-> 0, samples |-> 0,
      frequency |-> <<>>, confidence |-> <<>>, time |-> <<>>,
      valid_frames |-> <<>>, avg_confidence |-> [num |-> 0, den |-> 1],
      midi |-> <<>>, pitch_data |-> JsonNull ]

\* lines 21-38: the argument checks
CrepeArgs ==
    /\ runner = "crepe" /\ pc = "start"
    /\ UNCHANGED <<runner, argv, torch, media, sys_stdout, device,
                   model_loaded, fs, demucs, whisper>>
    /\ IF Len(argv) < 2
       THEN /\ Exit(<<PrintJson(sys_stdout, [error |-> "Missing arguments"])>>, 1)
            /\ UNCHANGED crepe
       ELSE IF ~argv[2].wellformed
       THEN /\ Exit(<<PrintJson(sys_stdout,
                                [error |-> "Invalid JSON arguments"])>>, 1)
            /\ UNCHANGED crepe
       ELSE IF argv[2].type # "object"
       THEN \* args.get on a list, number, string or None: AttributeError,
            \* raised outside the try block
            /\ Uncaught(<<>>, "AttributeError")
            /\ UNCHANGED crepe
       ELSE LET args == argv[2].members
                input_path == Get(args, "input", None)
            IN  /\ crepe' = [crepe EXCEPT
                               !.input_path = input_path,
                               !.output_path = Get(args, "output", None)]
                /\ IF ~Truthy(input_path)
                   THEN Exit(<<PrintJson(sys_stdout,
                                         [error |-> "Missing input path"])>>, 1)
                   ELSE Goto(<<>>, "device")

\* lines 41-55: imports, device selection, first progress event
CrepeDevice ==
    /\ runner = "crepe" /\ pc = "device"
    /\ UNCHANGED <<runner, argv, torch, media, sys_stdout, model_loaded, fs,
                   crepe, demucs, whisper>>
    /\ \E import_ok \in BOOLEAN :
         IF ~import_ok
         THEN Except(<<>>, sys_stdout, "import") /\ UNCHANGED device
         ELSE /\ device' = CrepeDetectDevice(torch)
              /\ Goto(<<progress(0)>>, "load")

\* lines 59-64: sf.read
CrepeLoad ==
    /\ runner = "crepe" /\ pc = "load"
    /\ UNCHANGED <<runner, argv, torch, media, sys_stdout, device,
                   model_loaded, fs, demucs, whisper>>
    /\ \E read_ok \in BOOLEAN :
         IF ~read_ok
         THEN Except(<<>>, sys_stdout, "sf.read") /\ UNCHANGED crepe
         ELSE /\ crepe' = [crepe EXCEPT
                             !.channels = media.channels,
                             !.sample_rate = media.sample_rate,
                             !.samples = Len(media.frames) * crepe.hop_length]
              /\ Goto(<<progress(5)>>, "prepare")

\* lines 67-81: mono mix, resampling to 16 kHz, move to the device
CrepePrepare ==
    /\ runner = "crepe" /\ pc = "prepare"
    /\ UNCHANGED <<runner, argv, torch, media, sys_stdout, device,
                   model_loaded, fs, demucs, whisper>>
    /\ LET mono     == IF crepe.channels > 1 THEN <<progress(8)>> ELSE <<>>
           resample == IF crepe.sample_rate # crepe_rate
                       THEN <<progress(10)>> ELSE <<>>
       IN  \E ok \in BOOLEAN :
             IF ~ok
             THEN \* resample() or audio.to(device) raises
                  Except(mono \o resample, sys_stdout, "resample") /\ UNCHANGED crepe
             ELSE /\ crepe' = [crepe EXCEPT !.channels = 1,
                                            !.sample_rate = crepe_rate]
                  /\ Goto(mono \o resample \o <<progress(15)>>, "predict")

\* lines 88-110: torchcrepe.predict, the timing line, the time axis
CrepePredict ==
    /\ runner = "crepe" /\ pc = "predict"
    /\ UNCHANGED <<runner, argv, torch, media, sys_stdout, device, fs,
                   demucs, whisper>>
    /\ \E predict_ok \in BOOLEAN :
         IF ~predict_ok
         THEN /\ Except(<<>>, sys_stdout, "predict")
              /\ UNCHANGED <<crepe, model_loaded>>
         ELSE /\ model_loaded' = TRUE
              /\ IF crepe.samples = 0
                 THEN \* line 102: elapsed_time/duration with duration == 0.0
                      \* raises ZeroDivisionError
                      /\ Except(<<progress(75)>>, sys_stdout, "ZeroDivisionError")
                      /\ UNCHANGED crepe
                 ELSE /\ crepe' = [crepe EXCEPT
                            !.frequency = [i \in 1..Len(media.frames) |->
                                              media.frames[i].frequency],
                            !.confidence = [i \in 1..Len(media.frames) |->
                                              media.frames[i].confidence],
                            !.time = [i \in 1..Len(media.frames) |->
                                              (i - 1) * crepe.hop_length]]
                      /\ Goto(<<progress(75), StderrText("timing")>>, "stats")

\* lines 113-117: summary statistics, computed before the gate
CrepeStats ==
    /\ runner = "crepe" /\ pc = "stats"
    /\ UNCHANGED <<runner, argv, torch, media, sys_stdout, device,
                   model_loaded, fs, demucs, whisper>>
    /\ LET valid_frames == ValidFrames(crepe.frequency, crepe.confidence)
       IN  crepe' = [crepe EXCEPT
                       !.valid_frames = valid_frames,
                       !.avg_confidence = MeanWhere(crepe.confidence,
                                                    valid_frames)]
    /\ Goto(<<progress(80)>>, "gate")

\* lines 121-136: confidence gate, MIDI conversion, vocal range
CrepeGate ==
    /\ runner = "crepe" /\ pc = "gate"
    /\ UNCHANGED <<runner, argv, torch, media, sys_stdout, device,
                   model_loaded, fs, demucs, whisper>>
    /\ LET frequency == ConfidenceGate(crepe.frequency, crepe.confidence)
       IN  crepe' = [crepe EXCEPT !.frequency = frequency,
                                  !.midi = ToMidi(frequency)]
    /\ Goto(<<progress(85)>>, "downsample")

\* lines 140-157: decimation by 4 and rounding
CrepeDownsample ==
    /\ runner = "crepe" /\ pc = "downsample"
    /\ UNCHANGED <<runner, argv, torch, media, sys_stdout, device,
                   model_loaded, fs, demucs, whisper>>
    /\ crepe' = [crepe EXCEPT !.pitch_data = BuildPitchData(crepe)]
    /\ Goto(<<progress(90)>>, "save")

\* lines 160-163: the optional pitch file
CrepeSave ==
    /\ runner = "crepe" /\ pc = "save"
    /\ UNCHANGED <<runner, argv, torch, media, sys_stdout, device,
                   model_loaded, crepe, demucs, whisper>>
    /\ IF Truthy(crepe.output_path)
       THEN \E open_ok \in BOOLEAN :
              IF ~open_ok
              THEN Except(<<progress(95)>>, sys_stdout, "open") /\ UNCHANGED fs
              ELSE /\ fs' = fs \cup {[path |-> crepe.output_path,
                                      content |-> crepe.pitch_data]}
                   /\ Goto(<<progress(95)>>, "result")
       ELSE Goto(<<>>, "result") /\ UNCHANGED fs

\* lines 165-178: the last progress event and the result
CrepeResult ==
    /\ runner = "crepe" /\ pc = "result"
    /\ UNCHANGED <<runner, argv, torch, media, sys_stdout, device,
                   model_loaded, fs, crepe, demucs, whisper>>
    /\ LET n == Len(crepe.time)
           result ==
             [ success        |-> TRUE,
               num_frames     |-> Len(crepe.pitch_data.time),
               duration       |-> IF n > 0
                                  THEN [num |-> crepe.time[n],
                                        den |-> crepe.sample_rate]
                                  ELSE [num |-> 0, den |-> 1],
               device         |-> device,
               voiced_percent |-> RoundHalfEven(
                                     1000 * CountTrue(crepe.valid_frames), n),
               avg_confidence |-> RoundHalfEven(crepe.avg_confidence.num,
                                     10 * crepe.avg_confidence.den),
               pitch_data     |-> IF ~Truthy(crepe.output_path)
                                  THEN crepe.pitch_data ELSE JsonNull,
               output_file    |-> crepe.output_path ]
       IN  Exit(<<progress(100), PrintJson(sys_stdout, result)>>, 0)

NextCrepe ==
    \/ CrepeArgs
    \/ CrepeDevice
    \/ CrepeLoad
    \/ CrepePrepare
    \/ CrepePredict
    \/ CrepeStats
    \/ CrepeGate
    \/ CrepeDownsample
    \/ CrepeSave
    \/ CrepeResult

(***************************************************************************)
(* demucs_runner.py                                                        *)
(***************************************************************************)
SourceNames == {"drums", "bass", "other", "vocals"}

\* model.sources: a list of distinct names
SourceLists(n) ==
    { q \in UNION { [1..k -> SourceNames] : k \in 0..n } :
        \A i, j \in 1..Len(q) : i # j => q[i] # q[j] }

\* the separation model's declared sources and the input file's rate
DemucsMedia(n) ==
    [sources : SourceLists(n), sample_rate : {model_samplerate, 48000},
     seconds : {20}]

\* StemProgress without the division by num_sources
StemProgressUnscaled(i, num_sources) == 85 + (i * 14)

\* int(85 + (i / num_sources) * 14); for 0 <= i < num_sources the float
\* expression truncates to this integer quotient
StemProgress(i, num_sources) == 85 + ((i * 14) \div num_sources)

\* StemPath without the output directory
StemPathBare(output_dir, name) == <<name, "wav">>

\* str(Path(output_dir) / f"{name}.wav"), as its components
StemPath(output_dir, name) == <<output_dir, name, "wav">>

DemucsLocals ==
    [ input_path |-> None, output_dir |-> None, model_name |-> "htdemucs_ft",
      source_names |-> <<>>, sample_rate |-> 0, duration |-> 0,
      stem_files |-> <<>>, i |-> 0 ]

\* lines 21-38: the argument checks
DemucsArgs ==
    /\ runner = "demucs" /\ pc = "start"
    /\ UNCHANGED <<runner, argv, torch, media, sys_stdout, device,
                   model_loaded, fs, crepe, whisper>>
    /\ IF Len(argv) < 2
       THEN /\ Exit(<<PrintJson(sys_stdout, [error |-> "Missing arguments"])>>, 1)
            /\ UNCHANGED demucs
       ELSE IF ~argv[2].wellformed
       THEN /\ Exit(<<PrintJson(sys_stdout,
                                [error |-> "Invalid JSON arguments"])>>, 1)
            /\ UNCHANGED demucs
       ELSE IF argv[2].type # "object"
       THEN \* args.get raises AttributeError outside the try block
            /\ Uncaught(<<>>, "AttributeError")
            /\ UNCHANGED demucs
       ELSE LET args == argv[2].members
                input_path == Get(args, "input", None)
                output_dir == Get(args, "output_dir", None)
            IN  /\ demucs' = [demucs EXCEPT !.input_path = input_path,
                                            !.output_dir = output_dir]
                /\ IF ~Truthy(input_path) \/ ~Truthy(output_dir)
                   THEN Exit(<<PrintJson(sys_stdout,
                                [error |-> "Missing input or output_dir"])>>, 1)
                   ELSE Goto(<<>>, "device")

\* lines 41-58: imports, device selection, first progress event
DemucsDevice ==
    /\ runner = "demucs" /\ pc = "device"
    /\ UNCHANGED <<runner, argv, torch, media, sys_stdout, model_loaded, fs,
                   crepe, demucs, whisper>>
    /\ \E import_ok \in BOOLEAN :
         IF ~import_ok
         THEN Except(<<>>, sys_stdout, "import") /\ UNCHANGED device
         ELSE /\ device' = DemucsDetectDevice(torch)
              /\ Goto(<<progress(0)>>, "model")

\* lines 61-74: get_model and its declared sources
DemucsLoadModel ==
    /\ runner = "demucs" /\ pc = "model"
    /\ UNCHANGED <<runner, argv, torch, media, sys_stdout, device, fs,
                   crepe, whisper>>
    /\ \E model_ok \in BOOLEAN :
         IF ~model_ok
         THEN Except(<<>>, sys_stdout, "get_model") /\ UNCHANGED <<demucs, model_loaded>>
         ELSE /\ model_loaded' = TRUE
              /\ demucs' = [demucs EXCEPT !.source_names = media.sources]
              /\ Goto(<<progress(5)>>, "load")

\* lines 78-94: sf.read and convert_audio
DemucsLoadAudio ==
    /\ runner = "demucs" /\ pc = "load"
    /\ UNCHANGED <<runner, argv, torch, media, sys_stdout, device,
                   model_loaded, fs, crepe, whisper>>
    /\ \E read_ok, convert_ok \in BOOLEAN :
         IF ~read_ok
         THEN Except(<<>>, sys_stdout, "sf.read") /\ UNCHANGED demucs
         ELSE IF ~convert_ok
         THEN Except(<<progress(8)>>, sys_stdout, "convert_audio") /\ UNCHANGED demucs
         ELSE /\ demucs' = [demucs EXCEPT !.sample_rate = media.sample_rate,
                                           !.duration = media.seconds]
              /\ Goto(<<progress(8), progress(10)>>, "separate")

\* lines 97-118: apply_model and the batched resampling
DemucsSeparate ==
    /\ runner = "demucs" /\ pc = "separate"
    /\ UNCHANGED <<runner, argv, torch, media, sys_stdout, device,
                   model_loaded, fs, crepe, demucs, whisper>>
    /\ \E apply_ok, resample_ok \in BOOLEAN :
         IF ~apply_ok
         THEN Except(<<>>, sys_stdout, "apply_model")
         ELSE IF model_samplerate # demucs.sample_rate
         THEN IF ~resample_ok
              THEN Except(<<progress(82), progress(83)>>, sys_stdout, "resample")
              ELSE Goto(<<progress(82), progress(83)>>, "mkdir")
         ELSE Goto(<<progress(82)>>, "mkdir")

\* lines 121-125: the output directory
DemucsMkdir ==
    /\ runner = "demucs" /\ pc = "mkdir"
    /\ UNCHANGED <<runner, argv, torch, media, sys_stdout, device,
                   model_loaded, crepe, whisper>>
    /\ \E mkdir_ok \in BOOLEAN :
         IF ~mkdir_ok
         THEN Except(<<>>, sys_stdout, "mkdir") /\ UNCHANGED <<fs, demucs>>
         ELSE /\ fs' = fs \cup {[path |-> <<demucs.output_dir>>,
                                 content |-> [dir |-> TRUE]]}
              /\ demucs' = [demucs EXCEPT !.stem_files = <<>>, !.i = 0]
              /\ Goto(<<>>, "stems")

\* lines 127-136: one iteration of the loop over source_names
DemucsSaveStem ==
    /\ runner = "demucs" /\ pc = "stems"
    /\ demucs.i < Len(demucs.source_names)
    /\ UNCHANGED <<runner, argv, torch, media, sys_stdout, device,
                   model_loaded, crepe, whisper>>
    /\ LET i           == demucs.i
           name        == demucs.source_names[i + 1]
           num_sources == Len(demucs.source_names)
           stem_path   == StemPath(demucs.output_dir, name)
           saving      == <<progress(StemProgress(i, num_sources))>>
       IN  \E write_ok \in BOOLEAN :
             IF ~write_ok
             THEN Except(saving, sys_stdout, "sf.write") /\ UNCHANGED <<fs, demucs>>
             ELSE /\ fs' = fs \cup {[path |-> stem_path,
                                     content |-> [audio |-> name,
                                        sample_rate |-> demucs.sample_rate]]}
                  /\ demucs' = [demucs EXCEPT
                        !.stem_files = [k \in DOMAIN @ \cup {name} |->
                                          IF k = name THEN stem_path ELSE @[k]],
                        !.i = i + 1]
                  /\ Goto(saving, "stems")

\* lines 138-147: the last progress event and the result
DemucsResult ==
    /\ runner = "demucs" /\ pc = "stems"
    /\ demucs.i = Len(demucs.source_names)
    /\ UNCHANGED <<runner, argv, torch, media, sys_stdout, device,
                   model_loaded, fs, crepe, demucs, whisper>>
    /\ Exit(<<progress(100),
              PrintJson(sys_stdout,
                [ success     |-> TRUE,
                  stems       |-> demucs.stem_files,
                  model       |-> demucs.model_name,
                  device      |-> device,
                  sample_rate |-> demucs.sample_rate,
                  duration    |-> demucs.duration ])>>, 0)

NextDemucs ==
    \/ DemucsArgs
    \/ DemucsDevice
    \/ DemucsLoadModel
    \/ DemucsLoadAudio
    \/ DemucsSeparate
    \/ DemucsMkdir
    \/ DemucsSaveStem
    \/ DemucsResult

(***************************************************************************)
(* whisper_runner.py                                                       *)
(***************************************************************************)
Chars == {"a", " "}

Texts(n) == UNION { [1..k -> Chars] : k \in 0..n }

\* str.split(): the maximal runs of non-blank characters, in order
RECURSIVE SplitFrom(_, _, _)
SplitFrom(text, i, word) ==
    IF i > Len(text)
    THEN IF word = <<>> THEN <<>> ELSE <<word>>
    ELSE IF text[i] = " "
    THEN (IF word = <<>> THEN <<>> ELSE <<word>>) \o SplitFrom(text, i + 1, <<>>)
    ELSE SplitFrom(text, i + 1, Append(word, text[i]))

Split(text) == SplitFrom(text, 1, <<>>)

\* str.strip(): without the leading and trailing blanks
Strip(text) ==
    LET solid == {i \in 1..Len(text) : text[i] # " "}
    IN  IF solid = {} THEN <<>>
        ELSE LET lo == CHOOSE i \in solid : \A j \in solid : i <= j
                 hi == CHOOSE i \in solid : \A j \in solid : j <= i
             IN  SubSeq(text, lo, hi)

\* one segment of model.transcribe(): text, start and end (in ticks)
Segments(maxLen, maxTicks) ==
    { g \in [text : Texts(maxLen), start : 0..maxTicks, end : 0..maxTicks] :
        g.start <= g.end }

RECURSIVE Concat(_)
Concat(ss) == IF ss = <<>> THEN <<>> ELSE Head(ss) \o Concat(Tail(ss))

\* the recording as Whisper hears it: its length in seconds and the segments
WhisperMedia(segLists) == [seconds : {20, 95}, segments : segLists]

\* The float expressions of one segment's loop whose value is rounded:
\* word_start of word i is  segment_start + i * word_duration,
\* word_end   of word i is  word_start + word_duration   (i from 0).
\* Exactly, both are (start * k + j * (end - start)) / k ticks, with j = i
\* for a start and j = i + 1 for an end.
BoundaryNum(seg, k, j) == seg.start * k + j * (seg.end - seg.start)

IsTie(num, den) == 2 * (num % den) = den

\* the rounded expressions of a segment with k words that sit on a tie
TieExprs(seg, k) ==
    { x \in {"word_start", "word_end"} \X (0..(k - 1)) :
        IsTie(BoundaryNum(seg, k, IF x[1] = "word_start" THEN x[2] ELSE x[2] + 1),
              k * TicksPerMs) }

\* Which side of a tie the doubles can fall on.  up is for the word
\* expressions, start_up for segment_start, end_up for segment_end.
\*  - a value off a tie has no side (its flag stays FALSE);
\*  - word_end of word 0 and word_start of word 1 are the same double,
\*    segment_start + word_duration, so they fall alike;
\*  - if segment_end = segment_start then word_duration is 0.0 and every
\*    expression is the double segment_start.
TieSides(seg, up, start_up, end_up) ==
    /\ IsTie(seg.start, TicksPerMs) \/ ~start_up
    /\ IsTie(seg.end, TicksPerMs) \/ ~end_up
    /\ (<<"word_end", 0>> \in DOMAIN up /\ <<"word_start", 1>> \in DOMAIN up)
          => up[<<"word_end", 0>>] = up[<<"word_start", 1>>]
    /\ seg.start = seg.end =>
          /\ end_up = start_up
          /\ \A x \in DOMAIN up : up[x] = start_up

\* SegmentWords with enumerate() counted from 1
SegmentWordsFromOne(seg, text_words, up, line_up) ==
    LET k == Len(text_words)
    IN  [ w \in 1..k |->
            [ word  |-> text_words[w],
              start |-> RoundFloat(BoundaryNum(seg, k, w), k * TicksPerMs,
                                   FALSE),
              end   |-> RoundFloat(BoundaryNum(seg, k, w + 1), k * TicksPerMs,
                                   FALSE) ] ]

\* lines 118-128: the words of one segment; up says, for each rounded
\* expression on a tie, on which side of the tie the double fell.
\* word_start of word 0 is segment_start itself.
SegmentWords(seg, text_words, up, line_up) ==
    LET k == Len(text_words)
        Up(x) == IF x = <<"word_start", 0>> THEN line_up
                 ELSE IF x \in DOMAIN up THEN up[x] ELSE FALSE
    IN  [ w \in 1..k |->
            [ word  |-> text_words[w],
              start |-> RoundFloat(BoundaryNum(seg, k, w - 1), k * TicksPerMs,
                                   Up(<<"word_start", w - 1>>)),
              end   |-> RoundFloat(BoundaryNum(seg, k, w), k * TicksPerMs,
                                   Up(<<"word_end", w - 1>>)) ] ]

WhisperLocals ==
    [ input_path |-> None, initial_prompt |-> None,
      model_name |-> "large-v3-turbo", language |-> "en",
      duration |-> 0, segments |-> <<>>, i |-> 0,
      words |-> <<>>, lines |-> <<>> ]

\* lines 20-37: the argument checks
WhisperArgs ==
    /\ runner = "whisper" /\ pc = "start"
    /\ UNCHANGED <<runner, argv, torch, media, sys_stdout, device,
                   model_loaded, fs, crepe, demucs>>
    /\ IF Len(argv) < 2
       THEN /\ Exit(<<PrintJson(sys_stdout, [error |-> "Missing arguments"])>>, 1)
            /\ UNCHANGED whisper
       ELSE IF ~argv[2].wellformed
       THEN /\ Exit(<<PrintJson(sys_stdout,
                                [error |-> "Invalid JSON arguments"])>>, 1)
            /\ UNCHANGED whisper
       ELSE IF argv[2].type # "object"
       THEN \* args.get raises AttributeError outside the try block
            /\ Uncaught(<<>>, "AttributeError")
            /\ UNCHANGED whisper
       ELSE LET args == argv[2].members
                input_path == Get(args, "input", None)
            IN  /\ whisper' = [whisper EXCEPT
                      !.input_path = input_path,
                      !.initial_prompt = Get(args, "initial_prompt", None)]
                /\ IF ~Truthy(input_path)
                   THEN Exit(<<PrintJson(sys_stdout,
                                         [error |-> "Missing input path"])>>, 1)
                   ELSE Goto(<<>>, "device")

\* lines 40-55: imports, device selection, first progress event
WhisperDevice ==
    /\ runner = "whisper" /\ pc = "device"
    /\ UNCHANGED <<runner, argv, torch, media, sys_stdout, model_loaded, fs,
                   crepe, demucs, whisper>>
    /\ \E import_ok \in BOOLEAN :
         IF ~import_ok
         THEN Except(<<>>, sys_stdout, "import") /\ UNCHANGED device
         ELSE /\ device' = WhisperDetectDevice(torch)
              /\ Goto(<<progress(0)>>, "model")

\* lines 58-60: whisper.load_model
WhisperLoadModel ==
    /\ runner = "whisper" /\ pc = "model"
    /\ UNCHANGED <<runner, argv, torch, media, sys_stdout, device, fs,
                   crepe, demucs, whisper>>
    /\ \E model_ok \in BOOLEAN :
         IF ~model_ok
         THEN Except(<<>>, sys_stdout, "load_model") /\ UNCHANGED model_loaded
         ELSE /\ model_loaded' = TRUE
              /\ Goto(<<progress(15)>>, "load")

\* lines 63-91: whisper.load_audio, the vocabulary hint, the chunk notice
WhisperLoadAudio ==
    /\ runner = "whisper" /\ pc = "load"
    /\ UNCHANGED <<runner, argv, torch, media, sys_stdout, device,
                   model_loaded, fs, crepe, demucs>>
    /\ \E load_ok \in BOOLEAN :
         IF ~load_ok
         THEN Except(<<>>, sys_stdout, "load_audio") /\ UNCHANGED whisper
         ELSE LET duration   == media.seconds
                  hint       == IF Truthy(whisper.initial_prompt)
                                THEN <<progress(22)>> ELSE <<>>
                  num_chunks == IF duration \div chunk_seconds > 1
                                THEN duration \div chunk_seconds ELSE 1
                  chunks     == IF num_chunks > 1
                                THEN <<progress(25)>> ELSE <<>>
              IN  /\ whisper' = [whisper EXCEPT !.duration = duration]
                  /\ Goto(<<progress(20)>> \o hint \o chunks, "transcribe")

\* lines 94-106: model.transcribe with sys.stdout bound to stderr
WhisperTranscribe ==
    /\ runner = "whisper" /\ pc = "transcribe"
    /\ UNCHANGED <<runner, argv, torch, media, device, model_loaded, fs,
                   crepe, demucs>>
    /\ \E transcribe_ok \in BOOLEAN :
         IF ~transcribe_ok
         THEN \* the exception leaves the try body before line 100 restores
              \* sys.stdout, so the handler's print goes to stderr
              /\ sys_stdout' = "stderr"
              /\ Except(<<>>, "stderr", "transcribe")
              /\ UNCHANGED whisper
         ELSE /\ sys_stdout' = sys_stdout
              /\ whisper' = [whisper EXCEPT !.segments = media.segments,
                                            !.i = 0,
                                            !.words = <<>>, !.lines = <<>>]
              /\ Goto(<<StderrText("verbose"), progress(85)>>, "segments")

\* lines 108-140: one iteration of the loop over the segments
WhisperSegment ==
    /\ runner = "whisper" /\ pc = "segments"
    /\ whisper.i < Len(whisper.segments)
    /\ UNCHANGED <<runner, argv, torch, media, sys_stdout, device,
                   model_loaded, fs, crepe, demucs>>
    /\ LET segment      == whisper.segments[whisper.i + 1]
           segment_text == Strip(segment.text)
           text_words   == Split(segment_text)
           k            == Len(text_words)
       IN  \E up \in [TieExprs(segment, k) -> BOOLEAN],
              start_up, end_up \in BOOLEAN :
             /\ TieSides(segment, up, start_up, end_up)
             /\ LET segment_words ==
                      SegmentWords(segment, text_words, up, start_up)
                    line == [ text  |-> segment_text,
                              start |-> RoundFloat(segment.start, TicksPerMs,
                                                   start_up),
                              end   |-> RoundFloat(segment.end, TicksPerMs,
                                                   end_up),
                              words |-> segment_words ]
                IN  whisper' = [whisper EXCEPT
                      !.words = @ \o [w \in 1..k |->
                                  [ word        |-> segment_words[w].word,
                                    start       |-> segment_words[w].start,
                                    end         |-> segment_words[w].end,
                                    probability |-> word_probability ]],
                      !.lines = IF k > 0 THEN Append(@, line) ELSE @,
                      !.i = @ + 1]
             /\ Goto(<<>>, "segments")

\* lines 142-161: the last progress events and the result
WhisperResult ==
    /\ runner = "whisper" /\ pc = "segments"
    /\ whisper.i = Len(whisper.segments)
    /\ UNCHANGED <<runner, argv, torch, media, sys_stdout, device,
                   model_loaded, fs, crepe, demucs, whisper>>
    /\ LET words == whisper.words
           avg_confidence ==
             IF Len(words) > 0
             THEN RoundHalfEven(SumSeq([w \in 1..Len(words) |->
                                          words[w].probability]), Len(words))
             ELSE 0
       IN  Exit(<<progress(95), progress(100),
                  PrintJson(sys_stdout,
                    [ success       |-> TRUE,
                      text          |-> Strip(Concat([g \in 1..Len(whisper.segments)
                                           |-> whisper.segments[g].text])),
                      language      |-> whisper.language,
                      lines         |-> whisper.lines,
                      words         |-> words,
                      model         |-> whisper.model_name,
                      device        |-> device,
                      duration      |-> whisper.duration,
                      avgConfidence |-> avg_confidence ])>>, 0)

NextWhisper ==
    \/ WhisperArgs
    \/ WhisperDevice
    \/ WhisperLoadModel
    \/ WhisperLoadAudio
    \/ WhisperTranscribe
    \/ WhisperSegment
    \/ WhisperResult

(***************************************************************************)
(* Specifications.                                                         *)
(***************************************************************************)
\* The state when main() is entered.
Start(r, argvs, torches, medias) ==
    /\ runner = r
    /\ argv \in argvs
    /\ torch \in torches
    /\ media \in medias
    /\ pc = "start"
    /\ log = <<>>
    /\ sys_stdout = "stdout"
    /\ exit_code = -1
    /\ exc = "none"
    /\ device = "none"
    /\ model_loaded = FALSE
    /\ fs = {}
    /\ crepe = CrepeLocals
    /\ demucs = DemucsLocals
    /\ whisper = WhisperLocals

\* a few input files per runner: enough for every path of the protocol
ProtocolFrames == {f \in FrameSeqs(MaxFrames) : Len(f) <= 1}

ProtocolSegments ==
    { <<>>,
      << [text |-> <<"a", " ", "a">>, start |-> 0, end |-> 4] >>,
      << [text |-> <<"a">>, start |-> 0, end |-> 2],
         [text |-> <<" ">>, start |-> 2, end |-> 4] >> }

Init ==
    \/ Start("crepe", Argvs("crepe"), Torches, CrepeMedia(ProtocolFrames))
    \/ Start("demucs", Argvs("demucs"), Torches, DemucsMedia(MaxSources))
    \/ Start("whisper", Argvs("whisper"), Torches,
             WhisperMedia(ProtocolSegments))

Next == NextCrepe \/ NextDemucs \/ NextWhisper

\* any runner, any argument, any accelerator
Spec == Init /\ [][Next]_vars

\* any runner, the argument a JSON object
ObjectArgvs(r) == {a \in Argvs(r) : Len(a) = 2 /\ a[2].type = "object"}

InitObject ==
    \/ Start("crepe", ObjectArgvs("crepe"), Torches, CrepeMedia(ProtocolFrames))
    \/ Start("demucs", ObjectArgvs("demucs"), Torches, DemucsMedia(MaxSources))
    \/ Start("whisper", ObjectArgvs("whisper"), Torches,
             WhisperMedia(ProtocolSegments))

SpecObject == InitObject /\ [][Next]_vars

\* the pitch runner on an Apple-Silicon machine, over every frame series
AppleSilicon == {[cuda |-> FALSE, has_mps |-> TRUE, mps |-> TRUE]}

ValidArgvs(r) ==
    {a \in ObjectArgvs(r) : \A k \in ArgKeys(r) \ {"output", "initial_prompt"} :
                               Truthy(Get(a[2].members, k, None))}

InitCrepe ==
    Start("crepe", ValidArgvs("crepe"), AppleSilicon,
          {m \in CrepeMedia(FrameSeqs(MaxFrames)) :
              m.channels = 1 /\ m.sample_rate = crepe_rate})

SpecCrepe == InitCrepe /\ [][NextCrepe]_vars

\* the transcript runner over every single segment
InitWhisper ==
    Start("whisper", ValidArgvs("whisper"), AppleSilicon,
          {m \in WhisperMedia({<<g>> : g \in Segments(MaxTextLen, MaxTicks)}) :
              m.seconds = 20})

SpecWhisper == InitWhisper /\ [][NextWhisper]_vars

(***************************************************************************)
(* Vocabulary of the properties.                                           *)
(***************************************************************************)
Exited == pc = "exited"

IsProgress(e) == e.kind = "progress"
IsResultWrite(e) == e.fd = "stdout"
IsSuccess(e) == e.kind = "json" /\ "success" \in DOMAIN e.body
IsError(e) == e.kind = "json" /\ "error" \in DOMAIN e.body
                              /\ "success" \notin DOMAIN e.body

\* the writes to the result channel (the real stdout), in order
ResultWrites == SelectSeq(log, IsResultWrite)

\* the percents of the progress events, in order
Percents ==
    LET ev == SelectSeq(log, IsProgress)
    IN  [i \in 1..Len(ev) |-> ev[i].percent]

\* the run ended with the success payload on the result channel
Succeeded ==
    /\ Exited
    /\ Len(ResultWrites) = 1
    /\ IsSuccess(ResultWrites[1])

\* the payload a successful run wrote
Payload == ResultWrites[1].body

\* the argument is missing, is not a JSON object, or lacks a required path
RequiredKeys == IF runner = "demucs" THEN {"input", "output_dir"} ELSE {"input"}

BadArgument ==
    \/ Len(argv) < 2
    \/ ~argv[2].wellformed
    \/ argv[2].type # "object"
    \/ \E k \in RequiredKeys : ~Truthy(Get(argv[2].members, k, None))

NonDecreasing(q) == \A i, j \in 1..Len(q) : i <= j => q[i] <= q[j]

(***************************************************************************)
(* C1 -- as claimed: on every path of every runner exactly one JSON object *)
(* is written to the real stdout, after every progress event, and the exit *)
(* status is 0 iff that object is the success payload.  The transcript     *)
(* runner breaks it: an exception inside model.transcribe() is handled     *)
(* while sys.stdout is still bound to stderr.                              *)
(***************************************************************************)
C1_ExactlyOneResultWrite ==
    /\ Len(ResultWrites) <= 1
    /\ Exited =>
         /\ Len(ResultWrites) = 1
         /\ ResultWrites[1].kind = "json"
         /\ \A i, j \in 1..Len(log) :
               IsResultWrite(log[i]) /\ IsProgress(log[j]) => j < i
         /\ exit_code = 0 <=> IsSuccess(ResultWrites[1])
         /\ exit_code # 0 <=> IsError(ResultWrites[1])

(***************************************************************************)
(* C2 -- as claimed: a missing argument, an argument that is not a         *)
(* well-formed JSON object, or one lacking a required path field ends the  *)
(* run at once with {error} on the result channel and a non-zero status,   *)
(* nothing else having happened.  An argument that is JSON but not an      *)
(* object breaks it: no payload is written at all.                         *)
(***************************************************************************)
C2_BadArgumentFailsFast ==
    BadArgument =>
        /\ pc \in {"start", "exited"}
        /\ Percents = <<>>
        /\ device = "none"
        /\ ~model_loaded
        /\ fs = {}
        /\ Exited =>
             /\ Len(log) = 1
             /\ IsResultWrite(log[1])
             /\ IsError(log[1])
             /\ exit_code # 0

(***************************************************************************)
(* C3 -- as claimed: every exception raised once the argument text has     *)
(* been parsed is caught by the one top-level handler, serialized as       *)
(* {error, traceback}, and ends the run with a non-zero status; none       *)
(* escapes.  Reading a field of a parsed value that is not an object       *)
(* raises outside the try block and breaks it.                             *)
(***************************************************************************)
C3_NoExceptionEscapes ==
    /\ \A i \in 1..Len(log) : log[i].kind # "uncaught"
    /\ exc # "none" =>
         /\ Exited
         /\ exit_code # 0
         /\ log[Len(log)].kind = "json"
         /\ DOMAIN log[Len(log)].body = {"error", "traceback"}

(***************************************************************************)
(* C4 -- progress percents.                                                *)
(***************************************************************************)
\* every percent lies in 0..100 and the sequence never decreases
ProgressMonotone ==
    /\ \A i \in 1..Len(Percents) : Percents[i] \in 0..100
    /\ NonDecreasing(Percents)

\* the event of a stem just saved lies in the band 85..99
StemBand ==
    (runner = "demucs" /\ pc = "stems" /\ demucs.i > 0) =>
        /\ IsProgress(log[Len(log)])
        /\ log[Len(log)].percent \in 85..99

\* C4 as claimed: monotone percents in 0..100, stems inside [85,99], and
\* the last progress event of every invocation is at 100.  A run that fails
\* after its first progress event breaks the last part.
C4_LastProgressAlways100 ==
    /\ ProgressMonotone
    /\ StemBand
    /\ (Exited /\ Percents # <<>>) => Percents[Len(Percents)] = 100

\* C4 as amended: monotone percents in 0..100, stems inside [85,99], and
\* the last progress event of every invocation that ends with the success
\* payload is at 100.
C4_ProgressMonotoneTo100 ==
    /\ ProgressMonotone
    /\ StemBand
    /\ Succeeded => (Percents # <<>> /\ Percents[Len(Percents)] = 100)

\* C4 witness: a stems run with three sources and resampling has succeeded
C4_Witness ==
    /\ runner = "demucs"
    /\ Succeeded
    /\ Len(demucs.source_names) = 3
    /\ \E i \in 1..Len(Percents) : Percents[i] = 83
    /\ \E i \in 1..Len(Percents) : Percents[i] = 94

(***************************************************************************)
(* C5 -- device selection.                                                 *)
(***************************************************************************)
\* C5 as claimed: stems and transcript take CUDA, else MPS, else CPU; the
\* pitch runner takes CPU whatever is available; the device is fixed before
\* the first progress event and reported in the success payload.  The pitch
\* runner on a CUDA machine breaks it.
C5_PitchAlwaysCpu ==
    /\ device # "none" =>
         device = (IF runner = "crepe" THEN "cpu"
                   ELSE IF torch.cuda THEN "cuda"
                   ELSE IF torch.has_mps /\ torch.mps THEN "mps" ELSE "cpu")
    /\ Percents # <<>> => device # "none"
    /\ Succeeded => Payload.device = device

\* the device each runner is to choose
DevicePolicy ==
    IF torch.cuda THEN "cuda"
    ELSE IF runner # "crepe" /\ torch.has_mps /\ torch.mps THEN "mps"
    ELSE "cpu"

\* C5 as amended: stems and transcript take CUDA, else MPS, else CPU; the
\* pitch runner takes CUDA if it is available and CPU otherwise, never MPS;
\* the device is chosen before the first progress event, never changes once
\* chosen, and is the `device' of the success payload.
C5_DevicePolicy ==
    /\ [](/\ device # "none" => device = DevicePolicy
          /\ Percents # <<>> => device # "none"
          /\ Succeeded => Payload.device = device)
    /\ [][device # "none" => device' = device]_vars

\* C5 witness: the pitch runner finished on CPU although MPS was available
C5_Witness ==
    /\ runner = "crepe"
    /\ ~torch.cuda /\ torch.has_mps /\ torch.mps
    /\ Succeeded
    /\ Payload.device = "cpu"

(***************************************************************************)
(* C6 -- as claimed: the pitch runner, given an input of zero duration or  *)
(* one whose every frame is below the confidence gate, and no library or   *)
(* I/O failure, ends with the success payload and status 0, with           *)
(* voiced_percent 0, avg_confidence 0 and every frequency and midi 0.      *)
(* Zero duration breaks it: the timing line divides by the duration.       *)
(***************************************************************************)
\* the pitch series a run has emitted: in the payload or in the pitch file
EmittedSeries ==
    {f.content : f \in fs}
    \cup (IF Succeeded /\ Payload.pitch_data # JsonNull
          THEN {Payload.pitch_data} ELSE {})

SilentInput ==
    \A i \in 1..Len(media.frames) : media.frames[i].confidence < ConfGate

C6_SilentInputSucceeds ==
    (runner = "crepe" /\ Exited /\ ~BadArgument /\ exc \notin LibraryErrors
        /\ SilentInput) =>
        /\ Succeeded
        /\ exit_code = 0
        /\ Payload.voiced_percent = 0
        /\ Payload.avg_confidence = 0
        /\ EmittedSeries # {}
        /\ \A d \in EmittedSeries :
              /\ \A j \in 1..Len(d.frequency) : d.frequency[j] = 0
              /\ \A j \in 1..Len(d.midi) : d.midi[j] = 0
              /\ media.frames = <<>> => d.frequency = <<>>

(***************************************************************************)
(* C7 -- in every pitch series the pitch runner emits, in the payload or   *)
(* in the pitch file, a frame whose confidence is below 0.5 has frequency  *)
(* 0 and midi 0, and every confidence is the detector's own value for the  *)
(* frame kept by the decimation, rounded to 3 decimals, gated or not.      *)
(***************************************************************************)
C7_GatedFramesAreZero ==
    runner = "crepe" =>
      \A d \in EmittedSeries :
        /\ Len(d.frequency) = Len(d.confidence)
        /\ Len(d.midi) = Len(d.confidence)
        /\ \A j \in 1..Len(d.confidence) :
              /\ d.confidence[j] * 10 < ConfGate =>
                    (d.frequency[j] = 0 /\ d.midi[j] = 0)
              /\ (j - 1) * downsample_factor + 1 \in 1..Len(media.frames)
              /\ d.confidence[j] = RoundHalfEven(
                   media.frames[(j - 1) * downsample_factor + 1].confidence, 10)

\* C7 witness: an emitted series of two points, the first voiced, the
\* second below the gate and zeroed with its confidence intact
C7_Witness ==
    /\ runner = "crepe"
    /\ Exited
    /\ \E d \in EmittedSeries :
          /\ Len(d.confidence) = 2
          /\ d.frequency[1] > 0 /\ d.midi[1] > 0
          /\ d.confidence[2] = 300 /\ d.frequency[2] = 0 /\ d.midi[2] = 0

(***************************************************************************)
(* C8 -- the stems runner has no partial success: the `stems' of a success *)
(* payload has exactly the model's declared sources as keys, each mapped   *)
(* to <output_dir>/<name>.wav, a file written before the result; and a run *)
(* in which the directory or any stem could not be written ends with an    *)
(* error payload and a non-zero status.                                    *)
(***************************************************************************)
C8_StemsAllOrNothing ==
    runner = "demucs" =>
      /\ Succeeded =>
           /\ DOMAIN Payload.stems = {media.sources[i] : i \in 1..Len(media.sources)}
           /\ \A name \in DOMAIN Payload.stems :
                 /\ Payload.stems[name] =
                       <<argv[2].members["output_dir"], name, "wav">>
                 /\ \E f \in fs : /\ f.path = Payload.stems[name]
                                  /\ f.content = [audio |-> name,
                                        sample_rate |-> media.sample_rate]
      /\ (Exited /\ exc \in {"mkdir", "sf.write"}) =>
           /\ Len(ResultWrites) = 1
           /\ IsError(ResultWrites[1])
           /\ exit_code # 0
      /\ (Exited /\ \E i \in 1..Len(media.sources) :
                       \A f \in fs : f.content # [audio |-> media.sources[i],
                                        sample_rate |-> media.sample_rate]) =>
           ~Succeeded

\* C8 witness: three declared sources, three files, one success payload
C8_Witness ==
    /\ runner = "demucs"
    /\ Succeeded
    /\ Len(media.sources) = 3
    /\ Cardinality(DOMAIN Payload.stems) = 3
    /\ Cardinality(fs) = 4

(***************************************************************************)
(* C9 -- word timing.                                                      *)
(***************************************************************************)
Abs(x) == IF x < 0 THEN 0 - x ELSE x

\* C9 as claimed: in every emitted line the rounded word intervals tile
\* [line.start, line.end] exactly: first start = line.start, each end =
\* the next start, last end = line.end, all lengths equal.  Rounding to
\* milliseconds breaks the equal lengths (and, on half-millisecond points,
\* the abutment).
C9_WordsTileExactly ==
    (runner = "whisper" /\ Succeeded) =>
      \A l \in 1..Len(Payload.lines) :
        LET line == Payload.lines[l]
            k    == Len(line.words)
        IN  /\ k >= 1
            /\ line.words[1].start = line.start
            /\ \A w \in 1..(k - 1) : line.words[w].end = line.words[w + 1].start
            /\ line.words[k].end = line.end
            /\ \A w, v \in 1..k :
                  line.words[w].end - line.words[w].start
                    = line.words[v].end - line.words[v].start

\* the line of segment g: lines are appended for the segments that have words
HasWords(seg) == Len(Split(Strip(seg.text))) > 0

LineOf(g) ==
    Cardinality({h \in 1..g : HasWords(media.segments[h])})

\* C9 as amended: a segment with k >= 1 words yields one line with its k
\* words in text order; every emitted start and end is the exact division
\* point start + j*(end-start)/k rounded to a nearest millisecond; the first
\* word starts at line.start; a word's end and the next word's start (and
\* the last end and line.end) are equal unless the point is exactly half
\* way between two milliseconds, and then differ by at most 0.001; every
\* word's length is within 0.001 of (end-start)/k, and start <= end.
C9_WordsTileUpToRounding ==
    (runner = "whisper" /\ Succeeded) =>
      /\ Len(Payload.lines) = LineOf(Len(media.segments))
      /\ \A g \in 1..Len(media.segments) :
           HasWords(media.segments[g]) =>
             LET seg   == media.segments[g]
                 line  == Payload.lines[LineOf(g)]
                 k     == Len(line.words)
                 den   == k * TicksPerMs
                 Pt(j) == seg.start * k + j * (seg.end - seg.start)
                 Near(ms, j) == 2 * Abs(ms * den - Pt(j)) <= den
                 Half(j) == 2 * (Pt(j) % den) = den
             IN  /\ [w \in 1..k |-> line.words[w].word] = Split(seg.text)
                 /\ line.words[1].start = line.start
                 /\ Near(line.start, 0) /\ Near(line.end, k)
                 /\ \A w \in 1..k :
                       /\ Near(line.words[w].start, w - 1)
                       /\ Near(line.words[w].end, w)
                       /\ line.words[w].start <= line.words[w].end
                       /\ Abs((line.words[w].end - line.words[w].start) * den
                              - (seg.end - seg.start)) <= den
                 /\ \A w \in 1..(k - 1) :
                       /\ Abs(line.words[w].end - line.words[w + 1].start) <= 1
                       /\ ~Half(w) => line.words[w].end = line.words[w + 1].start
                 /\ Abs(line.words[k].end - line.end) <= 1
                 /\ ~Half(k) => line.words[k].end = line.end

\* C9 witness: a line of three words over one millisecond, of unequal
\* rounded lengths
C9_Witness ==
    /\ runner = "whisper"
    /\ Succeeded
    /\ \E l \in 1..Len(Payload.lines) :
          LET line == Payload.lines[l]
          IN  /\ Len(line.words) = 3
              /\ line.end - line.start = 1
              /\ line.words[1].end - line.words[1].start
                   # line.words[2].end - line.words[2].start

(***************************************************************************)
(* C10 -- statistics and gate.                                             *)
(***************************************************************************)
\* the gate has run: crepe.frequency is the gated series
GateApplied == runner = "crepe" /\ Len(crepe.midi) > 0

\* C10 as claimed: a raw frame is counted in the statistics iff its
\* frequency is still > 0 after the gate, for every confidence including
\* 0.5; voiced_percent is 0 iff every gated frequency is 0; statistics
\* before and after the gate agree.  A frame at exactly 0.5 breaks it.
C10_StatsMatchGate ==
    GateApplied =>
      /\ \A i \in 1..Len(crepe.frequency) :
            crepe.valid_frames[i] <=> crepe.frequency[i] > 0
      /\ Succeeded =>
           (Payload.voiced_percent = 0
              <=> \A i \in 1..Len(crepe.frequency) : crepe.frequency[i] = 0)
      /\ ValidFrames(crepe.frequency, crepe.confidence) = crepe.valid_frames

\* C10 as amended: a raw frame whose confidence is not exactly 0.5 is
\* counted iff its frequency is > 0 after the gate; a frame at exactly 0.5
\* is never counted although the gate leaves its frequency; every counted
\* frame keeps a frequency > 0, so voiced_percent is 0 whenever every gated
\* frequency is 0; and the statistics computed before the gate equal the
\* ones computed after it.
C10_StatsMatchGateOffThreshold ==
    GateApplied =>
      /\ \A i \in 1..Len(crepe.frequency) :
            /\ crepe.confidence[i] # ConfGate =>
                 (crepe.valid_frames[i] <=> crepe.frequency[i] > 0)
            /\ crepe.confidence[i] = ConfGate =>
                 (/\ ~crepe.valid_frames[i]
                  /\ crepe.frequency[i] = media.frames[i].frequency)
            /\ crepe.valid_frames[i] => crepe.frequency[i] > 0
      /\ Succeeded =>
           ((\A i \in 1..Len(crepe.frequency) : crepe.frequency[i] = 0)
              => Payload.voiced_percent = 0)
      /\ \A i \in 1..Len(crepe.frequency) :
            crepe.valid_frames[i]
              <=> (crepe.frequency[i] > 0 /\ crepe.confidence[i] > ConfGate)
      /\ crepe.avg_confidence.num
           = SumSeq([i \in 1..Len(crepe.frequency) |->
                IF crepe.frequency[i] > 0 /\ crepe.confidence[i] > ConfGate
                THEN crepe.confidence[i] ELSE 0])

\* C10 witness: the gate has run over a counted frame, a gated frame and a
\* frame at exactly 0.5 that is neither gated nor counted
C10_Witness ==
    /\ GateApplied
    /\ \E i, j, h \in 1..Len(crepe.frequency) :
          /\ crepe.valid_frames[i]
          /\ crepe.confidence[j] < ConfGate /\ crepe.frequency[j] = 0
          /\ crepe.confidence[h] = ConfGate /\ crepe.frequency[h] > 0
                /\ ~crepe.valid_frames[h]

====
